---- MODULE Spec2Model ----
(***************************************************************************)
(* A model of GcodePreprocessorUtils (src/gcodepreprocessorutils.cpp): the *)
(* G-code tokenizer, comment stripper, coordinate extractor, position      *)
(* updater, arc-center solver and arc tessellator.                         *)
(*                                                                         *)
(* Every function of the class is static and pure, so the state is one     *)
(* call: its arguments (call), its locals at return (frame) and its        *)
(* result (ret).  A QString is a sequence of one-character strings.        *)
(*                                                                         *)
(* A double is modelled exactly: a fraction in lowest terms, times Pi / 4  *)
(* for an angle in radians (and for an arc length, an angle times a        *)
(* length), with a quiet NaN and the infinities beside the numbers.  The   *)
(* inputs drawn are those whose square roots and arc tangents are exact    *)
(* in this form; rounding, and the narrowing of a double to the float of   *)
(* a QVector3D, are left out.  abs is the absolute value of a double.      *)
(* cos and sin are kept as written, not evaluated.                         *)
(***************************************************************************)
EXTENDS Integers, Sequences, FiniteSets, TLC

VARIABLES pc, call, frame, ret

vars == <<pc, call, frame, ret>>

NoCall == [op |-> "none"]
NoFrame == [op |-> "none"]
NoRet == <<>>

\* ------------------------------------------------------------------ bounds

\* Longest command string drawn for splitCommand.
MaxSplitLen == 5
\* Longest command string drawn for removeComment.
MaxCommentLen == 5
\* Longest argument list drawn for parseCoord / updatePointWithCommand.
MaxArgs == 3

\* ------------------------------------------------------------- characters

Digits == {"0", "1", "2", "3", "4", "5", "6", "7", "8", "9"}
UpperCase == <<"A", "B", "C", "D", "E", "F", "G", "H", "I", "J", "K", "L", "M",
               "N", "O", "P", "Q", "R", "S", "T", "U", "V", "W", "X", "Y", "Z">>
LowerCase == <<"a", "b", "c", "d", "e", "f", "g", "h", "i", "j", "k", "l", "m",
               "n", "o", "p", "q", "r", "s", "t", "u", "v", "w", "x", "y", "z">>

Range(s) == {s[i] : i \in 1..Len(s)}

isDigit(c) == c \in Digits
isLetter(c) == c \in Range(UpperCase) \cup Range(LowerCase)
isSpace(c) == c = " "

toUpper(c) ==
  IF c \in Range(LowerCase)
  THEN UpperCase[CHOOSE i \in 1..Len(LowerCase) : LowerCase[i] = c]
  ELSE c

\* All strings over alphabet of length 0..n.
Strings(alphabet, n) == UNION {[1..k -> alphabet] : k \in 0..n}

\* QString::mid(from) with a 0-based position.
mid(s, from) == SubSeq(s, from + 1, Len(s))

\* ---------------------------------------------------------------- doubles

\* A double is a fraction times a power of Pi / 4:
\*   [k |-> "num", num, den, pi]  is  (num / den) * (Pi / 4) ^ pi,
\* in lowest terms with den > 0 (zero is 0/1 with pi = 0), so that equal
\* values are equal records.  An angle in radians is a "num" with pi = 1;
\* so is an arc length, an angle times a length.  [k |-> "nan"] is a quiet
\* NaN and [k |-> "inf", sign] an infinity.
RECURSIVE GCD(_, _)
GCD(a, b) == IF b = 0 THEN a ELSE GCD(b, a % b)

Abs(n) == IF n < 0 THEN -n ELSE n
Sign(n) == IF n < 0 THEN -1 ELSE IF n > 0 THEN 1 ELSE 0

NaN == [k |-> "nan"]
Inf(sign) == [k |-> "inf", sign |-> sign]

PiNum(n, d, e) ==
  IF n = 0 THEN [k |-> "num", num |-> 0, den |-> 1, pi |-> 0]
  ELSE LET g == GCD(Abs(n), Abs(d)) IN
       [k |-> "num", num |-> Sign(d) * (n \div g), den |-> Abs(d) \div g, pi |-> e]

Frac(n, d) == PiNum(n, d, 0)
Num(n) == PiNum(n, 1, 0)

isnan(a) == a.k = "nan"
isnum(a) == a.k = "num"
SignOf(a) == IF a.k = "inf" THEN a.sign ELSE Sign(a.num)

DNeg(a) ==
  IF a.k = "nan" THEN NaN
  ELSE IF a.k = "inf" THEN Inf(-a.sign)
  ELSE PiNum(-a.num, a.den, a.pi)

\* Sums are drawn only between values of the same power of Pi (or zero).
DAdd(a, b) ==
  IF a.k = "nan" \/ b.k = "nan" THEN NaN
  ELSE IF a.k = "inf" /\ b.k = "inf" THEN (IF a.sign = b.sign THEN a ELSE NaN)
  ELSE IF a.k = "inf" THEN a
  ELSE IF b.k = "inf" THEN b
  ELSE IF a.num = 0 THEN b
  ELSE IF b.num = 0 THEN a
  ELSE IF a.pi = b.pi
  THEN PiNum(a.num * b.den + b.num * a.den, a.den * b.den, a.pi)
  ELSE CHOOSE x \in {} : TRUE

DSub(a, b) == DAdd(a, DNeg(b))

DMul(a, b) ==
  IF a.k = "nan" \/ b.k = "nan" THEN NaN
  ELSE IF a.k = "inf" \/ b.k = "inf"
  THEN (IF SignOf(a) * SignOf(b) = 0 THEN NaN ELSE Inf(SignOf(a) * SignOf(b)))
  ELSE PiNum(a.num * b.num, a.den * b.den, a.pi + b.pi)

DDiv(a, b) ==
  IF a.k = "nan" \/ b.k = "nan" THEN NaN
  ELSE IF a.k = "inf" /\ b.k = "inf" THEN NaN
  ELSE IF a.k = "inf" THEN Inf(a.sign * (IF SignOf(b) < 0 THEN -1 ELSE 1))
  ELSE IF b.k = "inf" THEN Num(0)
  ELSE IF b.num = 0 THEN (IF a.num = 0 THEN NaN ELSE Inf(Sign(a.num)))
  ELSE PiNum(a.num * b.den, a.den * b.num, a.pi - b.pi)

\* a < b; false when either is NaN.  Finite values are compared only when
\* they carry the same power of Pi (or one is zero).
DLess(a, b) ==
  IF a.k = "nan" \/ b.k = "nan" THEN FALSE
  ELSE IF a.k = "inf" THEN a.sign < 0 /\ b # a
  ELSE IF b.k = "inf" THEN b.sign > 0
  ELSE IF a.num = 0 \/ b.num = 0 \/ a.pi = b.pi
  THEN a.num * b.den < b.num * a.den
  ELSE CHOOSE x \in {} : TRUE

DAbs(a) == IF a.k = "inf" THEN Inf(1) ELSE IF isnum(a) /\ a.num < 0 THEN DNeg(a) ELSE a

IsSquare(n) == \E r \in 0..n : r * r = n
ISqrt(n) == CHOOSE r \in 0..n : r * r = n

\* sqrt(a): NaN below zero; drawn otherwise only where the root is exact.
DSqrt(a) ==
  IF a.k = "nan" THEN NaN
  ELSE IF a.k = "inf" THEN (IF a.sign > 0 THEN a ELSE NaN)
  ELSE IF a.num < 0 THEN NaN
  ELSE PiNum(ISqrt(a.num), ISqrt(a.den), a.pi \div 2)

SqrtExact(a) ==
  isnum(a) => (a.num < 0 \/ (a.pi % 2 = 0 /\ IsSquare(a.num) /\ IsSquare(a.den)))

\* M_PI: four units of Pi / 4.
M_PI == PiNum(4, 1, 1)

\* ceil(a) of a finite a, as an integer.  Pi / 4 lies strictly between
\* 785398 / 1000000 and 785399 / 1000000; a multiple of it is drawn only
\* where both bounds give the same ceiling.
CeilFrac(n, d) == -((-n) \div d)
DCeil(a) ==
  IF a.pi = 0 THEN CeilFrac(a.num, a.den)
  ELSE IF a.pi = 1 /\ CeilFrac(a.num * 785398, a.den * 1000000)
                      = CeilFrac(a.num * 785399, a.den * 1000000)
  THEN CeilFrac(a.num * 785398, a.den * 1000000)
  ELSE CHOOSE x \in {} : TRUE

\* ------------------------------------------------------------------ return

\* The caller takes the result; the next call starts from nothing, as no
\* function keeps state.
Return ==
  /\ pc = "done"
  /\ pc' = "idle"
  /\ call' = NoCall
  /\ frame' = NoFrame
  /\ ret' = NoRet

Init ==
  /\ pc = "idle"
  /\ call = NoCall
  /\ frame = NoFrame
  /\ ret = NoRet

\* ------------------------------------------------------------ splitCommand

splitBoundary_MinusContinues(readNumeric, c) ==
  readNumeric /\ ~isDigit(c) /\ c # "." /\ c # "-"

\* The boundary test of the scanner: a numeric run is being read and the
\* character is neither a digit nor a decimal point.
splitBoundary(readNumeric, c) ==
  readNumeric /\ ~isDigit(c) /\ c # "."

RECURSIVE splitScan(_, _, _, _, _)
splitScan(command, i, l, sb, readNumeric) ==
  IF i > Len(command)
  THEN IF Len(sb) > 0 THEN Append(l, sb) ELSE l
  ELSE LET c == command[i] IN
       IF splitBoundary(readNumeric, c)
       THEN splitScan(command, i + 1, Append(l, sb),
                      IF isLetter(c) THEN <<c>> ELSE <<>>, FALSE)
       ELSE IF isDigit(c) \/ c = "." \/ c = "-"
       THEN splitScan(command, i + 1, l, Append(sb, c), TRUE)
       ELSE IF isLetter(c)
       THEN splitScan(command, i + 1, l, Append(sb, c), readNumeric)
       ELSE splitScan(command, i + 1, l, sb, readNumeric)

splitCommand(command) == splitScan(command, 1, <<>>, <<>>, FALSE)

SplitAlphabet == {"G", "X", "1", "-", ".", " "}
SplitCommands == Strings(SplitAlphabet, MaxSplitLen)

Call_splitCommand ==
  /\ pc = "idle"
  /\ \E command \in SplitCommands :
       /\ call' = [op |-> "splitCommand", command |-> command]
       /\ ret' = splitCommand(command)
  /\ frame' = NoFrame
  /\ pc' = "done"

NextSplit == Call_splitCommand \/ Return
SpecSplit == Init /\ [][NextSplit]_vars

isNumeric(c) == isDigit(c) \/ c = "." \/ c = "-"

\* The letters a token starts with.
LeadingLetters(t) ==
  LET stop == {i \in 1..Len(t) : ~isLetter(t[i])} IN
  IF stop = {} THEN Len(t) ELSE (CHOOSE i \in stop : \A j \in stop : i <= j) - 1

\* n is an unbroken run of an optional leading minus sign and digits or
\* decimal points (possibly empty).
NumericRun(n) ==
  /\ Len(n) > 0 => isNumeric(n[1])
  /\ \A i \in 2..Len(n) : isDigit(n[i]) \/ n[i] = "."

\* C7 as stated: every token returned by splitCommand is one letter
\* followed by a non-empty numeric run, or a single letter with no value;
\* in particular a letter not directly followed by a digit, '.' or '-' is
\* a one-character token of its own (so whitespace always separates
\* tokens).
C7_OneLetterTokens ==
  (pc = "done" /\ call.op = "splitCommand") =>
    /\ \A i \in 1..Len(ret) :
         /\ Len(ret[i]) >= 1
         /\ isLetter(ret[i][1])
         /\ NumericRun(mid(ret[i], 1))
    /\ \A i \in 1..Len(call.command) :
         (/\ isLetter(call.command[i])
          /\ (i = Len(call.command) \/ ~isNumeric(call.command[i + 1])))
         => \E j \in 1..Len(ret) : ret[j] = <<call.command[i]>>

\* C7 as amended: every token returned by splitCommand is non-empty and is
\* zero or more letters followed by an unbroken run of an optional leading
\* minus sign and digits or decimal points; the run is empty only in the
\* last token, so letters are never split from the letters and the number
\* that follow them, across whitespace included, and a token ends only
\* after a numeric character.
C7_TokenShape ==
  (pc = "done" /\ call.op = "splitCommand") =>
    \A i \in 1..Len(ret) :
      /\ Len(ret[i]) >= 1
      /\ NumericRun(mid(ret[i], LeadingLetters(ret[i])))
      /\ i < Len(ret) => isNumeric(ret[i][Len(ret[i])])

\* C7's case: letters separated by whitespace end up in one token.
C7_Witness ==
  /\ pc = "done" /\ call.op = "splitCommand"
  /\ call.command = <<"G", " ", "X", "1">>
  /\ ret = << <<"G", "X", "1">> >>

\* ---------------------------------------- parseCoord, updatePointWithCommand

DigitValue(c) == CHOOSE n \in 0..9 : <<"0", "1", "2", "3", "4", "5", "6", "7", "8", "9">>[n + 1] = c

RECURSIVE Decimal(_)
Decimal(s) == IF Len(s) = 0 THEN 0
              ELSE Decimal(SubSeq(s, 1, Len(s) - 1)) * 10 + DigitValue(s[Len(s)])

RECURSIVE Pow10(_)
Pow10(n) == IF n = 0 THEN 1 ELSE 10 * Pow10(n - 1)

\* QString::toDouble() on a text of sign, digits and decimal point: the
\* value when the whole text is a number, 0.0 when it is not.
toDouble(s) ==
  LET neg == Len(s) > 0 /\ s[1] = "-"
      body == IF neg THEN mid(s, 1) ELSE s
      dots == {i \in 1..Len(body) : body[i] = "."}
      dot == IF dots = {} THEN Len(body) + 1 ELSE CHOOSE i \in dots : \A j \in dots : i <= j
      whole == SubSeq(body, 1, dot - 1)
      fraction == SubSeq(body, dot + 1, Len(body))
      isNumber == /\ \A i \in 1..Len(whole) : isDigit(whole[i])
                  /\ \A i \in 1..Len(fraction) : isDigit(fraction[i])
                  /\ Len(whole) + Len(fraction) >= 1
  IN IF ~isNumber THEN Num(0)
     ELSE Frac((IF neg THEN -1 ELSE 1) * (Decimal(whole) * Pow10(Len(fraction)) + Decimal(fraction)),
               Pow10(Len(fraction)))

\* The test of the scan: the argument starts with the address letter,
\* whatever its case.
hasAddress_SameCase(t, address) == Len(t) > 0 /\ t[1] = address

hasAddress(t, address) == Len(t) > 0 /\ toUpper(t[1]) = address

\* The scan returns at the first argument that passes the test.
RECURSIVE parseCoordFrom_Last(_, _, _)
parseCoordFrom_Last(argList, i, address) ==
  IF i > Len(argList) THEN NaN
  ELSE LET later == parseCoordFrom_Last(argList, i + 1, address) IN
       IF hasAddress(argList[i], address) /\ isnan(later)
       THEN toDouble(mid(argList[i], 1))
       ELSE later

RECURSIVE parseCoordFrom(_, _, _)
parseCoordFrom(argList, i, address) ==
  IF i > Len(argList) THEN NaN
  ELSE IF hasAddress(argList[i], address) THEN toDouble(mid(argList[i], 1))
  ELSE parseCoordFrom(argList, i + 1, address)

parseCoord(argList, c) == parseCoordFrom(argList, 1, toUpper(c))

\* updatePointWithCommand(QVector3D initial, double x, double y, double z,
\* bool absoluteMode)
updatePoint(initial, x, y, z, absoluteMode) ==
  IF absoluteMode
  THEN [x |-> IF ~isnan(x) THEN x ELSE initial.x,
        y |-> IF ~isnan(y) THEN y ELSE initial.y,
        z |-> IF ~isnan(z) THEN z ELSE initial.z]
  ELSE [x |-> IF ~isnan(x) THEN DAdd(initial.x, x) ELSE initial.x,
        y |-> IF ~isnan(y) THEN DAdd(initial.y, y) ELSE initial.y,
        z |-> IF ~isnan(z) THEN DAdd(initial.z, z) ELSE initial.z]

\* updatePointWithCommand(QList<QString> commandArgs, QVector3D initial,
\* bool absoluteMode)
updatePointWithCommand(commandArgs, initial, absoluteMode) ==
  updatePoint(initial, parseCoord(commandArgs, "X"), parseCoord(commandArgs, "Y"),
              parseCoord(commandArgs, "Z"), absoluteMode)

Point(x, y, z) == [x |-> Num(x), y |-> Num(y), z |-> Num(z)]

\* The arguments drawn: addresses in both cases, whole, negative and
\* fractional values, a letter with no value, text that is no number, a
\* value with no letter and an empty argument.
ArgPool == { <<"X", "1">>, <<"x", "2">>, <<"X", "-", "1">>, <<"Y", ".", "5">>,
             <<"y", "2">>, <<"Z", "1", ".", "5">>, <<"X">>, <<"Z", "-">>,
             <<"G", "1">>, <<"3">>, <<>> }
ArgLists == UNION {[1..k -> ArgPool] : k \in 0..MaxArgs}
Addresses == {"X", "Y", "Z", "x", "G", "R"}
PriorPoints == {Point(0, 0, 0), Point(1, 2, 3), Point(-4, 0, 7)}

Call_parseCoord ==
  /\ pc = "idle"
  /\ \E argList \in ArgLists, c \in Addresses :
       /\ call' = [op |-> "parseCoord", argList |-> argList, c |-> c]
       /\ ret' = parseCoord(argList, c)
  /\ frame' = NoFrame
  /\ pc' = "done"

Call_updatePointWithCommand ==
  /\ pc = "idle"
  /\ \E commandArgs \in ArgLists, initial \in PriorPoints, absoluteMode \in BOOLEAN :
       /\ call' = [op |-> "updatePointWithCommand", commandArgs |-> commandArgs,
                   initial |-> initial, absoluteMode |-> absoluteMode]
       /\ frame' = [op |-> "updatePointWithCommand",
                    x |-> parseCoord(commandArgs, "X"),
                    y |-> parseCoord(commandArgs, "Y"),
                    z |-> parseCoord(commandArgs, "Z")]
       /\ ret' = updatePointWithCommand(commandArgs, initial, absoluteMode)
  /\ pc' = "done"

NextCoord == Call_parseCoord \/ Call_updatePointWithCommand \/ Return
SpecCoord == Init /\ [][NextCoord]_vars

\* The positions of the arguments that carry the address letter.
Matching(argList, letter) ==
  {i \in 1..Len(argList) : Len(argList[i]) > 0 /\ toUpper(argList[i][1]) = toUpper(letter)}

ValueAt(argList, i) == toDouble(mid(argList[i], 1))

\* C2 as stated: parseCoord returns the value of the LAST argument that
\* carries the letter, and the unset sentinel (NaN) when none does.
C2_LastMatchWins ==
  (pc = "done" /\ call.op = "parseCoord") =>
    LET m == Matching(call.argList, call.c) IN
    IF m = {} THEN isnan(ret)
    ELSE ret = ValueAt(call.argList, CHOOSE i \in m : \A j \in m : i >= j)

\* C2 as amended: parseCoord returns the value of the FIRST argument that
\* carries the letter, and the unset sentinel (NaN) when none does.
C2_FirstMatchWins ==
  (pc = "done" /\ call.op = "parseCoord") =>
    LET m == Matching(call.argList, call.c) IN
    IF m = {} THEN isnan(ret)
    ELSE ret = ValueAt(call.argList, CHOOSE i \in m : \A j \in m : i <= j)

\* C2's case: two arguments carry the letter, with different values.
C2_Witness ==
  /\ pc = "done" /\ call.op = "parseCoord"
  /\ call.argList = << <<"X", "1">>, <<"x", "2">> >>
  /\ call.c = "X"
  /\ ret = Num(1)

\* The rule of one axis: with no argument of the letter parseCoord gave
\* NaN and the axis keeps the prior value; with one (the first, when there
\* are several) the axis is its value, or the prior value plus it.
AxisRule(letter, coordinate, prior, result) ==
  LET m == Matching(call.commandArgs, letter) IN
  IF m = {} THEN isnan(coordinate) /\ result = prior
  ELSE LET value == ValueAt(call.commandArgs, CHOOSE i \in m : \A j \in m : i <= j) IN
       result = IF call.absoluteMode THEN value ELSE DAdd(prior, value)

\* C1: updatePointWithCommand follows one rule per axis X, Y, Z: with no
\* argument of that letter (in either case) parseCoord gives NaN and the
\* axis keeps the prior value; with one, the axis is that argument's value
\* (absolute mode) or the prior value plus it (relative mode).  Arguments
\* of other letters change nothing.
C1_PerAxisRule ==
  (pc = "done" /\ call.op = "updatePointWithCommand") =>
    /\ AxisRule("X", frame.x, call.initial.x, ret.x)
    /\ AxisRule("Y", frame.y, call.initial.y, ret.y)
    /\ AxisRule("Z", frame.z, call.initial.z, ret.z)

\* C1's case: relative mode, X given in lower case, Y and Z absent.
C1_Witness ==
  /\ pc = "done" /\ call.op = "updatePointWithCommand"
  /\ call.commandArgs = << <<"G", "1">>, <<"x", "2">> >>
  /\ call.initial = Point(1, 2, 3)
  /\ ~call.absoluteMode
  /\ ret = Point(3, 2, 3)

\* ----------------------------------------------------------- calculateSweep

TwoPi == DMul(M_PI, Num(2))

\* The full-circle case is taken when the two angles are equal.
calculateSweep_NoFullCircle(startAngle, endAngle, isCw) ==
  LET endA == IF endAngle = Num(0) THEN TwoPi ELSE endAngle IN
  IF ~isCw /\ DLess(endA, startAngle) THEN DAdd(DSub(TwoPi, startAngle), endA)
  ELSE IF isCw /\ DLess(startAngle, endA) THEN DAdd(DSub(TwoPi, endA), startAngle)
  ELSE DAbs(DSub(endA, startAngle))

calculateSweep(startAngle, endAngle, isCw) ==
  IF startAngle = endAngle THEN TwoPi
  ELSE LET endA == IF endAngle = Num(0) THEN TwoPi ELSE endAngle IN
       IF ~isCw /\ DLess(endA, startAngle) THEN DAdd(DSub(TwoPi, startAngle), endA)
       ELSE IF isCw /\ DLess(startAngle, endA) THEN DAdd(DSub(TwoPi, endA), startAngle)
       ELSE DAbs(DSub(endA, startAngle))

\* The angles drawn: the multiples of Pi / (4 * AngleDen) in [0, 2 Pi).
AngleDen == 2
Angles == {PiNum(a, AngleDen, 1) : a \in 0..(8 * AngleDen - 1)}

Call_calculateSweep ==
  /\ pc = "idle"
  /\ \E startAngle \in Angles, endAngle \in Angles, isCw \in BOOLEAN :
       /\ call' = [op |-> "calculateSweep", startAngle |-> startAngle,
                   endAngle |-> endAngle, isCw |-> isCw]
       /\ ret' = calculateSweep(startAngle, endAngle, isCw)
  /\ frame' = NoFrame
  /\ pc' = "done"

NextSweep == Call_calculateSweep \/ Return
SpecSweep == Init /\ [][NextSweep]_vars

\* An angle as a count of units of Pi / (4 * AngleDen).
AngleUnits(a) == (a.num * AngleDen) \div a.den

\* C6: for start and end angles in [0, 2 Pi) and either direction,
\* calculateSweep returns a value in (0, 2 Pi]: 2 Pi when start = end,
\* end - start + 2 Pi when counter-clockwise and end < start,
\* start - end + 2 Pi when clockwise and end > start, |end - start|
\* otherwise; the end angle 0 included.
C6_SweepValue ==
  (pc = "done" /\ call.op = "calculateSweep") =>
    LET s == AngleUnits(call.startAngle)
        e == AngleUnits(call.endAngle)
        turn == 8 * AngleDen
        expected == IF s = e THEN turn
                    ELSE IF ~call.isCw /\ e < s THEN e - s + turn
                    ELSE IF call.isCw /\ e > s THEN s - e + turn
                    ELSE Abs(e - s)
    IN /\ ret = PiNum(expected, AngleDen, 1)
       /\ DLess(Num(0), ret)
       /\ ~DLess(TwoPi, ret)

\* C6's case: the end angle is 0, the start is not, counter-clockwise.
C6_Witness ==
  /\ pc = "done" /\ call.op = "calculateSweep"
  /\ call.endAngle = Num(0)
  /\ call.startAngle = PiNum(3, 1, 1)
  /\ ~call.isCw
  /\ ret = PiNum(5, 1, 1)

\* ------------------------------- convertRToCenter, updateCenterWithCommand

DSq(a) == DMul(a, a)

\* hypot(x, y)
hypot(x, y) == DSqrt(DAdd(DSq(x), DSq(y)))

\* The frame of reference of the center returned: start + offset when
\* the I/J/K mode is incremental, the bare offset when it is absolute.
centerFrom(start, offsetX, offsetY, absoluteIJK) ==
  IF ~absoluteIJK
  THEN [x |-> DAdd(start.x, offsetX), y |-> DAdd(start.y, offsetY), z |-> Num(0)]
  ELSE [x |-> offsetX, y |-> offsetY, z |-> Num(0)]

\* 4 * R * R - x * x - y * y, the value whose square root is taken.
h_x2_div_d(start, end, radius) ==
  LET x == DSub(end.x, start.x)
      y == DSub(end.y, start.y)
  IN DSub(DSub(DMul(DMul(Num(4), radius), radius), DSq(x)), DSq(y))

\* convertRToCenter: the center returned.  A negative value under the root
\* is logged with qDebug() and the computation goes on.
convertRToCenter(start, end, radius, absoluteIJK, clockwise) ==
  LET x == DSub(end.x, start.x)
      y == DSub(end.y, start.y)
      h0 == DDiv(DNeg(DSqrt(h_x2_div_d(start, end, radius))), hypot(x, y))
      h1 == IF ~clockwise THEN DNeg(h0) ELSE h0
      h2 == IF DLess(radius, Num(0)) THEN DNeg(h1) ELSE h1
      offsetX == DMul(Frac(1, 2), DSub(x, DMul(y, h2)))
      offsetY == DMul(Frac(1, 2), DAdd(y, DMul(x, h2)))
  IN centerFrom(start, offsetX, offsetY, absoluteIJK)

\* What qDebug() has written when convertRToCenter returns.
convertRToCenterLog(start, end, radius) ==
  IF DLess(h_x2_div_d(start, end, radius), Num(0))
  THEN <<"Error computing arc radius.">> ELSE <<>>

updateCenterWithCommand(commandArgs, initial, nextPoint, absoluteIJKMode, clockwise) ==
  LET i == parseCoord(commandArgs, "I")
      j == parseCoord(commandArgs, "J")
      k == parseCoord(commandArgs, "K")
      radius == parseCoord(commandArgs, "R")
  IN IF isnan(i) /\ isnan(j) /\ isnan(k)
     THEN convertRToCenter(initial, nextPoint, radius, absoluteIJKMode, clockwise)
     ELSE updatePoint(initial, i, j, k, absoluteIJKMode)

\* The points drawn have whole coordinates within GridMax of the origin
\* and the radii are the halves up to RadiusMax / 2, either sign.
GridMax == 2
RadiusMax == 5
Grid == {Point(x, y, 0) : x \in (-GridMax)..GridMax, y \in (-GridMax)..GridMax}
Radii == {Frac(r, 2) : r \in (-RadiusMax)..RadiusMax}

\* Both square roots of convertRToCenter are exact (or of a NaN, or of a
\* negative value).
RootsExact(start, end, radius) ==
  /\ SqrtExact(h_x2_div_d(start, end, radius))
  /\ SqrtExact(DAdd(DSq(DSub(end.x, start.x)), DSq(DSub(end.y, start.y))))

\* The chords and radii drawn.
CenterInputs ==
  {c \in Grid \X Grid \X Radii : RootsExact(c[1], c[2], c[3])}

Call_convertRToCenter ==
  /\ pc = "idle"
  /\ \E c \in CenterInputs, absoluteIJK \in BOOLEAN, clockwise \in BOOLEAN :
       LET start == c[1]
           end == c[2]
           radius == c[3]
       IN /\ call' = [op |-> "convertRToCenter", start |-> start, end |-> end,
                      radius |-> radius, absoluteIJK |-> absoluteIJK,
                      clockwise |-> clockwise, radiusPath |-> TRUE]
          /\ frame' = [op |-> "convertRToCenter",
                       log |-> convertRToCenterLog(start, end, radius)]
          /\ ret' = convertRToCenter(start, end, radius, absoluteIJK, clockwise)
  /\ pc' = "done"

\* The arguments drawn for an arc command: a radius in either case and
\* sign, center offsets, and a word that is none of them.
ArcArgPool == { <<"R", "2", ".", "5">>, <<"r", "1">>, <<"R", "-", "2">>,
                <<"I", "1">>, <<"j", "-", "1">>, <<"K", "2">>, <<"X", "3">> }
ArcArgLists == UNION {[1..k -> ArcArgPool] : k \in 0..2}
ArcStarts == {Point(0, 0, 0), Point(1, -1, 0)}

\* The arc commands drawn: on the radius path both roots are exact.
onRadiusPath(commandArgs) ==
  /\ isnan(parseCoord(commandArgs, "I"))
  /\ isnan(parseCoord(commandArgs, "J"))
  /\ isnan(parseCoord(commandArgs, "K"))

CommandInputs ==
  {c \in ArcArgLists \X ArcStarts \X Grid :
     onRadiusPath(c[1]) => RootsExact(c[2], c[3], parseCoord(c[1], "R"))}

Call_updateCenterWithCommand ==
  /\ pc = "idle"
  /\ \E c \in CommandInputs, absoluteIJKMode \in BOOLEAN, clockwise \in BOOLEAN :
       LET commandArgs == c[1]
           initial == c[2]
           nextPoint == c[3]
           radius == parseCoord(commandArgs, "R")
           radiusPath == onRadiusPath(commandArgs)
       IN /\ call' = [op |-> "updateCenterWithCommand", start |-> initial,
                      end |-> nextPoint, radius |-> radius,
                      absoluteIJK |-> absoluteIJKMode, clockwise |-> clockwise,
                      radiusPath |-> radiusPath, commandArgs |-> commandArgs]
          /\ frame' = [op |-> "updateCenterWithCommand",
                       log |-> IF radiusPath
                               THEN convertRToCenterLog(initial, nextPoint, radius)
                               ELSE <<>>]
          /\ ret' = updateCenterWithCommand(commandArgs, initial, nextPoint,
                                            absoluteIJKMode, clockwise)
  /\ pc' = "done"

NextCenter == Call_convertRToCenter \/ Call_updateCenterWithCommand \/ Return
SpecCenter == Init /\ [][NextCenter]_vars

\* A call that resolves the center from the radius.
OnRadiusPath ==
  /\ pc = "done"
  /\ call.op \in {"convertRToCenter", "updateCenterWithCommand"}
  /\ call.radiusPath

\* The outcome by which a caller would learn of an impossible arc.
ArcRadiusError == [error |-> "Error computing arc radius."]

\* C3: on the radius path, when 4 R^2 - dx^2 - dy^2 is negative the caller
\* gets a distinguished error outcome, not a center computed from the
\* square root of the negative value.
C3_ErrorReported ==
  (OnRadiusPath /\ DLess(h_x2_div_d(call.start, call.end, call.radius), Num(0))) =>
    ret = ArcRadiusError

\* The squared X/Y distance between two points.
Dist2(p, q) == DAdd(DSq(DSub(p.x, q.x)), DSq(DSub(p.y, q.y)))

\* C4: on the radius path with start # end in X/Y and 4 R^2 >= dx^2 + dy^2,
\* in either direction and either I/J/K mode, the center returned is at
\* distance |R| from start and from end in X/Y (squared distances R^2).
C4_CenterAtRadius ==
  (/\ OnRadiusPath
   /\ isnum(call.radius)
   /\ Dist2(call.start, call.end) # Num(0)
   /\ ~DLess(h_x2_div_d(call.start, call.end, call.radius), Num(0))) =>
    /\ Dist2(ret, call.start) = DSq(call.radius)
    /\ Dist2(ret, call.end) = DSq(call.radius)

\* The same in incremental I/J/K mode only.
CenterAtRadiusIncremental ==
  (/\ OnRadiusPath
   /\ ~call.absoluteIJK
   /\ isnum(call.radius)
   /\ Dist2(call.start, call.end) # Num(0)
   /\ ~DLess(h_x2_div_d(call.start, call.end, call.radius), Num(0))) =>
    /\ Dist2(ret, call.start) = DSq(call.radius)
    /\ Dist2(ret, call.end) = DSq(call.radius)

\* ------------------------------------ getAngle, generatePointsAlongArcBDring

\* atan(q), drawn only where it is a multiple of Pi / 4.
atan(q) ==
  IF q = Num(0) THEN Num(0)
  ELSE IF q = Num(1) THEN PiNum(1, 1, 1)
  ELSE IF q = Num(-1) THEN PiNum(-1, 1, 1)
  ELSE CHOOSE x \in {} : TRUE

\* getAngle(start, end): the angle of end seen from start, by quadrant.
getAngle(start, end) ==
  LET deltaX == DSub(end.x, start.x)
      deltaY == DSub(end.y, start.y)
      zero == Num(0)
  IN IF deltaX # zero
     THEN IF DLess(zero, deltaX) /\ ~DLess(deltaY, zero)
          THEN atan(DDiv(deltaY, deltaX))
          ELSE IF DLess(deltaX, zero) /\ ~DLess(deltaY, zero)
          THEN DSub(M_PI, DAbs(atan(DDiv(deltaY, deltaX))))
          ELSE IF DLess(deltaX, zero) /\ DLess(deltaY, zero)
          THEN DAdd(M_PI, DAbs(atan(DDiv(deltaY, deltaX))))
          ELSE IF DLess(zero, deltaX) /\ DLess(deltaY, zero)
          THEN DSub(DMul(M_PI, Num(2)), DAbs(atan(DDiv(deltaY, deltaX))))
          ELSE zero
     ELSE IF DLess(zero, deltaY)
          THEN DDiv(M_PI, Num(2))
          ELSE DDiv(DMul(M_PI, Num(3)), Num(2))

\* The radius the first overload derives when none is given (R == 0).
arcRadius(start, end, center, R) ==
  IF R = Num(0)
  THEN DSqrt(DAdd(DSq(DSub(start.x, center.x)), DSq(DSub(end.y, center.y))))
  ELSE R

\* The segment length of the first overload once the minimum arc length
\* has been folded in.
segmentLength(arcLength, minArcLength, arcSegmentLength) ==
  IF ~DLess(Num(0), arcSegmentLength) /\ DLess(Num(0), minArcLength)
  THEN DDiv(arcLength, minArcLength)
  ELSE arcSegmentLength

\* int numPoints of the first overload.
numPointsFor_OnlyConfigured(arcLength, minArcLength, arcSegmentLength) ==
  IF DLess(Num(0), arcSegmentLength)
  THEN DCeil(DDiv(arcLength, arcSegmentLength))
  ELSE 20

numPointsFor(arcLength, minArcLength, arcSegmentLength) ==
  LET length == segmentLength(arcLength, minArcLength, arcSegmentLength) IN
  IF DLess(Num(0), length)
  THEN DCeil(DDiv(arcLength, length))
  ELSE 20

\* The test that keeps a short arc from being expanded.
belowMinimum(arcLength, minArcLength) ==
  DLess(Num(0), minArcLength) /\ DLess(arcLength, minArcLength)

\* cos(angle) * radius + c and sin(angle) * radius + c, kept as written.
CosAt(angle, radius, c) == [k |-> "cos", angle |-> angle, radius |-> radius, center |-> c]
SinAt(angle, radius, c) == [k |-> "sin", angle |-> angle, radius |-> radius, center |-> c]

\* The point appended last.
lastPoint_Recomputed(p1, p2, lineEnd) == lineEnd

lastPoint(p1, p2, lineEnd) == p2

\* The overload that takes startAngle, sweep and numPoints.
generatePoints(p1, p2, center, isCw, radius, startAngle, sweep, numPoints) ==
  LET r == IF radius = Num(0)
           THEN DSqrt(DAdd(DSq(DSub(p1.x, center.x)), DSq(DSub(p1.y, center.y))))
           ELSE radius
      zIncrement == DDiv(DSub(p2.z, p1.z), Num(numPoints))
      angleAt(i) ==
        LET turned == DDiv(DMul(Num(i), sweep), Num(numPoints))
            angle == IF isCw THEN DSub(startAngle, turned) ELSE DAdd(startAngle, turned)
        IN IF ~DLess(angle, DMul(M_PI, Num(2)))
           THEN DSub(angle, DMul(M_PI, Num(2))) ELSE angle
      lineEndAt(i) ==
        IF i = 0 THEN [x |-> p2.x, y |-> p2.y, z |-> p1.z]
        ELSE [x |-> CosAt(angleAt(i), r, center.x),
              y |-> SinAt(angleAt(i), r, center.y),
              z |-> DAdd(p1.z, DMul(Num(i), zIncrement))]
      count == IF numPoints > 1 THEN numPoints - 1 ELSE 0
  IN [i \in 1..count |-> lineEndAt(i)] \o <<lastPoint(p1, p2, lineEndAt(count))>>

\* The locals of the overload that takes R, minArcLength and
\* arcSegmentLength, when it returns.
arcFrame(start, end, center, clockwise, R, minArcLength, arcSegmentLength) ==
  LET radius == arcRadius(start, end, center, R)
      startAngle == getAngle(center, start)
      endAngle == getAngle(center, end)
      sweep == calculateSweep(startAngle, endAngle, clockwise)
      arcLength == DMul(sweep, radius)
      expanded == ~belowMinimum(arcLength, minArcLength)
  IN [op |-> "generatePointsAlongArcBDring", radius |-> radius,
      startAngle |-> startAngle, endAngle |-> endAngle, sweep |-> sweep,
      arcLength |-> arcLength, expanded |-> expanded,
      numPoints |-> IF expanded
                    THEN numPointsFor(arcLength, minArcLength, arcSegmentLength)
                    ELSE 20]

generatePointsAlongArcBDring(start, end, center, clockwise, R, minArcLength, arcSegmentLength) ==
  LET f == arcFrame(start, end, center, clockwise, R, minArcLength, arcSegmentLength) IN
  IF ~f.expanded THEN <<>>
  ELSE generatePoints(start, end, center, clockwise, f.radius, f.startAngle,
                      f.sweep, f.numPoints)

\* The arcs drawn: whole coordinates within ArcGridMax of the origin, the
\* start at height 0 and the end at height 1, start and end each at a
\* multiple of 45 degrees from the center, and a derived radius that is a
\* whole number.
ArcGridMax == 3
ArcStartPoints == {Point(x, y, 0) : x \in (-ArcGridMax)..ArcGridMax, y \in (-ArcGridMax)..ArcGridMax}
ArcEndPoints == {Point(x, y, 1) : x \in (-ArcGridMax)..ArcGridMax, y \in (-ArcGridMax)..ArcGridMax}
ArcCenters == {Point(0, 0, 0), Point(1, -1, 0)}
ArcRadii == {Num(0), Num(2)}
\* Lengths compared with an arc length are drawn as multiples of Pi / 4.
MinArcLengths == {Num(0), PiNum(3, 1, 1), PiNum(12, 1, 1)}
SegmentLengths == {Num(0), PiNum(1, 1, 1), PiNum(5, 1, 1)}

AngleExact(center, p) ==
  LET dx == DSub(p.x, center.x)
      dy == DSub(p.y, center.y)
  IN dx = Num(0) \/ dy = Num(0) \/ DAbs(dx) = DAbs(dy)

ArcExact(start, end, center) ==
  /\ AngleExact(center, start)
  /\ AngleExact(center, end)
  /\ SqrtExact(DAdd(DSq(DSub(start.x, center.x)), DSq(DSub(end.y, center.y))))
  /\ SqrtExact(DAdd(DSq(DSub(start.x, center.x)), DSq(DSub(start.y, center.y))))

\* The arcs drawn.
ArcInputs ==
  {a \in ArcStartPoints \X ArcEndPoints \X ArcCenters : ArcExact(a[1], a[2], a[3])}

Call_generatePointsAlongArcBDring ==
  /\ pc = "idle"
  /\ \E a \in ArcInputs, clockwise \in BOOLEAN, R \in ArcRadii,
        minArcLength \in MinArcLengths, arcSegmentLength \in SegmentLengths :
       LET start == a[1]
           end == a[2]
           center == a[3]
       IN /\ call' = [op |-> "generatePointsAlongArcBDring", start |-> start,
                      end |-> end, center |-> center, clockwise |-> clockwise, R |-> R,
                      minArcLength |-> minArcLength, arcSegmentLength |-> arcSegmentLength]
          /\ frame' = arcFrame(start, end, center, clockwise, R, minArcLength, arcSegmentLength)
          /\ ret' = generatePointsAlongArcBDring(start, end, center, clockwise, R,
                                                 minArcLength, arcSegmentLength)
  /\ pc' = "done"

NextArc == Call_generatePointsAlongArcBDring \/ Return
SpecArc == Init /\ [][NextArc]_vars

\* minArcLength > 0 and the arc length the call computed is below it.
Suppressed ==
  /\ DLess(Num(0), call.minArcLength)
  /\ DLess(frame.arcLength, call.minArcLength)

ArcCallDone == pc = "done" /\ call.op = "generatePointsAlongArcBDring"

\* C5: the sequence returned is empty only when minArcLength > 0 and
\* arcLength = sweep * radius is below it; in every other call it is
\* non-empty and its last element is the end point given, in x, y and z.
C5_EndsAtEnd ==
  ArcCallDone =>
    /\ frame.arcLength = DMul(frame.sweep, frame.radius)
    /\ IF Suppressed THEN ret = <<>>
       ELSE Len(ret) >= 1 /\ ret[Len(ret)] = call.end

\* C5's case: a minimum is configured, the arc is long enough, and points
\* are interpolated before the end point.
C5_Witness ==
  /\ ArcCallDone
  /\ DLess(Num(0), call.minArcLength)
  /\ ~Suppressed
  /\ Len(ret) >= 2
  /\ ret[Len(ret)] = call.end

Max(a, b) == IF a >= b THEN a ELSE b

\* C9 as stated: an arc that is not suppressed yields as many points as
\* the segment count, which is 20 when maxSegmentLength <= 0, whatever
\* minArcLength is, and max(1, ceil(arcLength / maxSegmentLength))
\* otherwise.
C9_CountIgnoresMinimum ==
  (ArcCallDone /\ ~Suppressed) =>
    Len(ret) = IF DLess(Num(0), call.arcSegmentLength)
               THEN Max(1, DCeil(DDiv(frame.arcLength, call.arcSegmentLength)))
               ELSE 20

\* C9 as amended: an arc that is not suppressed yields as many points as
\* the segment count, which is max(1, ceil(arcLength / maxSegmentLength))
\* when maxSegmentLength > 0, 20 when maxSegmentLength <= 0 and
\* minArcLength <= 0, and, when maxSegmentLength <= 0 and minArcLength > 0,
\* ceil(arcLength / (arcLength / minArcLength)), which is
\* ceil(minArcLength) in exact arithmetic; arcLength is the sweep times
\* the radius the call uses.
C9_CountFoldsMinimum ==
  (ArcCallDone /\ ~Suppressed) =>
    Len(ret) = IF DLess(Num(0), call.arcSegmentLength)
               THEN Max(1, DCeil(DDiv(frame.arcLength, call.arcSegmentLength)))
               ELSE IF DLess(Num(0), call.minArcLength)
               THEN Max(1, DCeil(call.minArcLength))
               ELSE 20

\* C9's case: no segment length, a minimum arc length of 3 Pi / 4 (2.36),
\* an arc long enough: 3 points, not 20.
C9_Witness ==
  /\ ArcCallDone
  /\ ~Suppressed
  /\ call.arcSegmentLength = Num(0)
  /\ call.minArcLength = PiNum(3, 1, 1)
  /\ Len(ret) = 3

\* C10: with no radius supplied (R == 0) the radius used for the arc
\* length, the minimum test, the count and the points is the X/Y distance
\* from center to start:
\* radius^2 = (start.x - center.x)^2 + (start.y - center.y)^2.
C10_RadiusFromStart ==
  (ArcCallDone /\ call.R = Num(0)) =>
    /\ DSq(frame.radius) = Dist2(call.start, call.center)
    /\ frame.arcLength = DMul(frame.sweep, frame.radius)

\* ----------------------------------------------------------- removeComment

\* s[i..e] is in the language of the regular expression \(+[^\(]*\)+ :
\* a run of '(' up to a, characters other than '(' up to b - 1, a run of ')'
\* from b to e.
parenMatches(s, i, e) ==
  \E a \in i..e : \E b \in (a + 1)..e :
    /\ \A k \in i..a : s[k] = "("
    /\ \A k \in (a + 1)..(b - 1) : s[k] # "("
    /\ \A k \in b..e : s[k] = ")"

\* The end of the match QRegExp finds at position i (its quantifiers are
\* greedy), 0 when there is none.
parenMatchEnd_Lazy(s, i) ==
  LET ends == {e \in i..Len(s) : parenMatches(s, i, e)} IN
  IF ends = {} THEN 0 ELSE CHOOSE e \in ends : \A f \in ends : e <= f

parenMatchEnd(s, i) ==
  LET ends == {e \in i..Len(s) : parenMatches(s, i, e)} IN
  IF ends = {} THEN 0 ELSE CHOOSE e \in ends : \A f \in ends : e >= f

\* command.replace(QRegExp("\\(+[^\\(]*\\)+"), ""): every match, left to
\* right and non-overlapping, is replaced by the empty string.
RECURSIVE replaceParens(_, _)
replaceParens(s, i) ==
  IF i > Len(s) THEN <<>>
  ELSE LET e == parenMatchEnd(s, i) IN
       IF e > 0 THEN replaceParens(s, e + 1)
       ELSE <<s[i]>> \o replaceParens(s, i + 1)

\* command.replace(QRegExp(";.*"), ""): the first ';' and all that follows.
replaceSemicolon(s) ==
  LET at == {i \in 1..Len(s) : s[i] = ";"} IN
  IF at = {} THEN s
  ELSE SubSeq(s, 1, (CHOOSE i \in at : \A j \in at : i <= j) - 1)

\* QString::trimmed(): whitespace removed from both ends.
trimmed(s) ==
  LET keep == {i \in 1..Len(s) : ~isSpace(s[i])} IN
  IF keep = {} THEN <<>>
  ELSE SubSeq(s, CHOOSE i \in keep : \A j \in keep : i <= j,
                 CHOOSE i \in keep : \A j \in keep : i >= j)

removeComment(command) == trimmed(replaceSemicolon(replaceParens(command, 1)))

CommentAlphabet == {"(", ")", ";", " ", "G"}
CommentCommands == Strings(CommentAlphabet, MaxCommentLen)

Call_removeComment ==
  /\ pc = "idle"
  /\ \E command \in CommentCommands :
       /\ call' = [op |-> "removeComment", command |-> command]
       /\ ret' = removeComment(command)
  /\ frame' = NoFrame
  /\ pc' = "done"

NextComment == Call_removeComment \/ Return
SpecComment == Init /\ [][NextComment]_vars

\* The position of the first c after position i, Len(s) + 1 when none.
NextAt(s, i, c) ==
  LET at == {j \in (i + 1)..Len(s) : s[j] = c} IN
  IF at = {} THEN Len(s) + 1 ELSE CHOOSE j \in at : \A k \in at : j <= k

\* s without each run from a '(' to the next ')'.
RECURSIVE StripToNextClose(_, _)
StripToNextClose(s, i) ==
  IF i > Len(s) THEN <<>>
  ELSE IF s[i] = "(" /\ NextAt(s, i, ")") <= Len(s)
  THEN StripToNextClose(s, NextAt(s, i, ")") + 1)
  ELSE <<s[i]>> \o StripToNextClose(s, i + 1)

\* s without each run from a '(' to the last ')' that comes before the next
\* '(' that is not part of the opening run of '('.
RECURSIVE StripToLastClose(_, _)
StripToLastClose(s, i) ==
  IF i > Len(s) THEN <<>>
  ELSE LET opened == CHOOSE j \in i..Len(s) :
                       /\ \A k \in i..j : s[k] = "("
                       /\ (j = Len(s) \/ s[j + 1] # "(")
           closes == {k \in (opened + 1)..(NextAt(s, opened, "(") - 1) : s[k] = ")"}
       IN IF s[i] = "(" /\ closes # {}
          THEN StripToLastClose(s, (CHOOSE k \in closes : \A m \in closes : k >= m) + 1)
          ELSE <<s[i]>> \o StripToLastClose(s, i + 1)

\* C8 as stated: removeComment returns the input with each run from a '('
\* to the next ')' removed and everything from the first ';' on removed,
\* then trimmed; text between a comment's closing ')' and a later ')' is
\* kept.
C8_NextCloseRemoved ==
  (pc = "done" /\ call.op = "removeComment") =>
    ret = trimmed(replaceSemicolon(StripToNextClose(call.command, 1)))

\* C8 as amended: removeComment returns the input with each run from a '('
\* to the LAST ')' before the next separate '(' (or the end) removed, a '('
\* with no such ')' being kept, and everything from the first remaining
\* ';' on removed, then trimmed.
C8_LastCloseRemoved ==
  (pc = "done" /\ call.op = "removeComment") =>
    ret = trimmed(replaceSemicolon(StripToLastClose(call.command, 1)))

\* C8's case: text between a comment's ')' and a later ')' goes with it.
C8_Witness ==
  /\ pc = "done" /\ call.op = "removeComment"
  /\ call.command = <<"(", "G", ")", "G", ")">>
  /\ ret = <<>>

====
